---- MODULE Spec2Model ----
(***************************************************************************)
(* Model of the project session lifecycle of the Vite preview server       *)
(* (src/server.js): the in-memory registry `projects`, the load-project,   *)
(* update-file, preview and health handlers, the cleanup sweep run by      *)
(* setInterval, and the SIGTERM handler.  Handlers run on one thread and   *)
(* interleave only at their `await`s, so every action below is the code    *)
(* between two suspension points.                                          *)
(***************************************************************************)
EXTENDS Integers, Sequences, FiniteSets, TLC

(* ---------------------------------------------------------------------- *)
(* Bounds of the model                                                     *)
(* ---------------------------------------------------------------------- *)
\* number of load-project and update-file requests that may arrive
MaxRequests == 2
\* number of clock steps (of TimeStep milliseconds) that may elapse
MaxClock == 2

(* ---------------------------------------------------------------------- *)
(* Program constants                                                       *)
(* ---------------------------------------------------------------------- *)
\* const MAX_AGE = 30 * 60 * 1000
MAX_AGE == 30 * 60 * 1000
\* the delay given to setInterval
SWEEP_INTERVAL == 30 * 60 * 1000
\* granularity of the modelled clock: time passes in steps of 30 minutes
TimeStep == 30 * 60 * 1000

(* ---------------------------------------------------------------------- *)
(* Paths: a path is the sequence of its segments, from the root            *)
(* ---------------------------------------------------------------------- *)
\* __dirname, the directory of server.js
Dirname == <<"srv">>

RECURSIVE NormalizeFrom(_, _)
\* path.normalize on an absolute path: "." and empty segments are dropped,
\* ".." removes the segment before it (and is dropped at the root)
NormalizeFrom(acc, rest) ==
    IF rest = <<>> THEN acc
    ELSE LET s == Head(rest) IN
         IF s = "." \/ s = ""
            THEN NormalizeFrom(acc, Tail(rest))
         ELSE IF s = ".."
            THEN NormalizeFrom(IF acc = <<>> THEN acc
                               ELSE SubSeq(acc, 1, Len(acc) - 1), Tail(rest))
         ELSE NormalizeFrom(Append(acc, s), Tail(rest))

\* path.join(a, b): concatenate, then normalize
join(a, b) == NormalizeFrom(<<>>, a \o b)

\* path.dirname
dirname(p) == IF p = <<>> THEN p ELSE SubSeq(p, 1, Len(p) - 1)

\* join(__dirname, 'projects', projectId)
ProjectPath(projectId) == join(join(Dirname, <<"projects">>), projectId)

IsPrefix(p, q) == Len(p) <= Len(q) /\ SubSeq(q, 1, Len(p)) = p

Prefixes(p) == { SubSeq(p, 1, k) : k \in 0..Len(p) }

(* ---------------------------------------------------------------------- *)
(* The file system: a function from the paths that exist to "dir" or to    *)
(* the content of a regular file                                           *)
(* ---------------------------------------------------------------------- *)
Contents == {"v1", "v2"}

\* fs.mkdir(p, {recursive: true}) succeeds unless a prefix of p is a file
MkdirOk(d, p) == \A q \in Prefixes(p) : q \in DOMAIN d => d[q] = "dir"

MkdirP(d, p) ==
    [q \in DOMAIN d \cup Prefixes(p) |-> IF q \in DOMAIN d THEN d[q] ELSE "dir"]

\* fs.writeFile(p, c) needs an existing parent directory and no directory at p
WriteOk(d, p) ==
    /\ p # <<>>
    /\ dirname(p) \in DOMAIN d
    /\ d[dirname(p)] = "dir"
    /\ p \in DOMAIN d => d[p] # "dir"

WriteFile(d, p, c) == [q \in DOMAIN d \cup {p} |-> IF q = p THEN c ELSE d[q]]

\* fs.rm(p, {recursive: true, force: true}): p and everything below it
RmRf(d, p) == [q \in { x \in DOMAIN d : ~IsPrefix(p, x) } |-> d[q]]

(* ---------------------------------------------------------------------- *)
(* Request inputs                                                          *)
(* ---------------------------------------------------------------------- *)
\* req.body.projectId; the empty id stands for a missing (falsy) one
NoId == <<>>
\* "p" and "p/q": two ids, the second with a separator in it
ProjectIds == { <<"p">>, <<"p", "q">> }

File(path, content) == [path |-> path, content |-> content]

\* req.body.files when it is an array
Manifests ==
    { << File(<<"f">>, "v1") >>,
      << File(<<"f">>, "v2") >>,
      << File(<<"q", "f">>, "v1") >> }

\* req.body.path of update-file; the empty path stands for a missing one
NoPath == <<>>
\* "f", "d/g" (a directory no load creates) and "../f"
UpdatePaths == { <<"f">>, <<"d", "g">>, <<"..", "f">> }

(* ---------------------------------------------------------------------- *)
(* State                                                                   *)
(* ---------------------------------------------------------------------- *)
VARIABLES
    projects,    \* the Map `projects`, as its entries in insertion order
    closeCount,  \* for every engine created so far, how often close() was called
    disk,        \* the file system
    now,         \* Date.now()
    nextSweep,   \* the time at which the setInterval callback is next due
    loads,       \* load-project handlers suspended on an await
    updates,     \* update-file handlers suspended on an await
    rms,         \* workspace paths with an fs.rm still pending
    sigterm,     \* the SIGTERM handler: its position and its Map iterator
    nLoads,      \* load-project requests received so far
    nUpdates,    \* update-file requests received so far
    out          \* what the last step answered or signalled

vars == <<projects, closeCount, disk, now, nextSweep, loads, updates, rms,
          sigterm, nLoads, nUpdates, out>>

\* no response, no signal
NoOut == [op |-> "none", id |-> NoId, status |-> 0, vite |-> 0, inval |-> FALSE]

Answer(op, id, status) ==
    [op |-> op, id |-> id, status |-> status, vite |-> 0, inval |-> FALSE]

\* the process is alive until process.exit
Running == sigterm.pc # "exited"

(* ---------------------------------------------------------------------- *)
(* The registry: projects.get, projects.set, projects.delete               *)
(* ---------------------------------------------------------------------- *)
Keys(ps) == { ps[k].key : k \in 1..Len(ps) }

Has(ps, id) == id \in Keys(ps)

\* projects.get(id), for an id that is present
Get(ps, id) == ps[CHOOSE k \in 1..Len(ps) : ps[k].key = id]

\* projects.set(id, session): a present key keeps its place, a new one goes last
MapSet(ps, id, session) ==
    LET e == [key |-> id, vite |-> session.vite, path |-> session.path,
              files |-> session.files, createdAt |-> session.createdAt]
    IN IF Has(ps, id)
          THEN [k \in 1..Len(ps) |-> IF ps[k].key = id THEN e ELSE ps[k]]
          ELSE Append(ps, e)

\* close() is called on every engine of the set hs
CloseAll(cc, hs) == [h \in DOMAIN cc |-> IF h \in hs THEN cc[h] + 1 ELSE cc[h]]

Init ==
    /\ projects = <<>>
    /\ closeCount = <<>>
    /\ disk = [q \in Prefixes(Dirname) |-> "dir"]
    /\ now = 0
    /\ nextSweep = SWEEP_INTERVAL
    /\ loads = {}
    /\ updates = {}
    /\ rms = {}
    /\ sigterm = [pc |-> "idle", pos |-> 0]
    /\ nLoads = 0
    /\ nUpdates = 0
    /\ out = NoOut

(* ---------------------------------------------------------------------- *)
(* POST /load-project                                                      *)
(* ---------------------------------------------------------------------- *)
\* the handler answers 500 from its catch block
LoadFail(r) ==
    /\ loads' = loads \ {r}
    /\ out' = Answer("load", r.projectId, 500)

\* the request arrives: validation, then the first await (mkdir projectPath)
LoadArrive(projectId, files, isArray) ==
    /\ Running
    /\ nLoads + nUpdates < MaxRequests
    /\ nLoads' = nLoads + 1
    /\ IF projectId = NoId \/ ~isArray
          THEN /\ out' = Answer("load", projectId, 400)
               /\ loads' = loads
          ELSE /\ out' = Answer("load", projectId, 0)
               /\ loads' = loads \cup
                    {[rid |-> nLoads + 1, projectId |-> projectId,
                      files |-> files, projectPath |-> ProjectPath(projectId),
                      i |-> 1, pc |-> "mkroot"]}
    /\ UNCHANGED <<projects, closeCount, disk, now, nextSweep, updates, rms,
                   sigterm, nUpdates>>

\* await fs.mkdir(projectPath, {recursive: true}) settles
LoadMkRoot(r) ==
    /\ Running
    /\ r \in loads /\ r.pc = "mkroot"
    /\ IF MkdirOk(disk, r.projectPath)
          THEN /\ disk' = MkdirP(disk, r.projectPath)
               /\ loads' = (loads \ {r}) \cup
                    {[r EXCEPT !.pc = IF r.files = <<>> THEN "vite" ELSE "mkdir"]}
               /\ out' = NoOut
          ELSE /\ disk' = disk
               /\ LoadFail(r)
    /\ UNCHANGED <<projects, closeCount, now, nextSweep, updates, rms,
                   sigterm, nLoads, nUpdates>>

\* const filePath = join(projectPath, file.path) for the file being written
LoadFilePath(r) == join(r.projectPath, r.files[r.i].path)

\* await fs.mkdir(fileDir, {recursive: true}) settles
LoadMkdir(r) ==
    /\ Running
    /\ r \in loads /\ r.pc = "mkdir"
    /\ IF MkdirOk(disk, dirname(LoadFilePath(r)))
          THEN /\ disk' = MkdirP(disk, dirname(LoadFilePath(r)))
               /\ loads' = (loads \ {r}) \cup {[r EXCEPT !.pc = "write"]}
               /\ out' = NoOut
          ELSE /\ disk' = disk
               /\ LoadFail(r)
    /\ UNCHANGED <<projects, closeCount, now, nextSweep, updates, rms,
                   sigterm, nLoads, nUpdates>>

\* await fs.writeFile(filePath, file.content) settles; the loop goes on
LoadWrite(r) ==
    /\ Running
    /\ r \in loads /\ r.pc = "write"
    /\ IF WriteOk(disk, LoadFilePath(r))
          THEN /\ disk' = WriteFile(disk, LoadFilePath(r), r.files[r.i].content)
               /\ loads' = (loads \ {r}) \cup
                    {IF r.i = Len(r.files)
                        THEN [r EXCEPT !.pc = "vite"]
                        ELSE [r EXCEPT !.pc = "mkdir", !.i = r.i + 1]}
               /\ out' = NoOut
          ELSE /\ disk' = disk
               /\ LoadFail(r)
    /\ UNCHANGED <<projects, closeCount, now, nextSweep, updates, rms,
                   sigterm, nLoads, nUpdates>>

\* an fs call of the handler rejects for a reason outside the model
\* (no space, no permission)
LoadFsError(r) ==
    /\ Running
    /\ r \in loads /\ r.pc \in {"mkroot", "mkdir", "write"}
    /\ LoadFail(r)
    /\ UNCHANGED <<projects, closeCount, disk, now, nextSweep, updates, rms,
                   sigterm, nLoads, nUpdates>>

\* the session object stored by projects.set
NewSession(r, t) ==
    [vite |-> r.rid, path |-> r.projectPath, files |-> r.files, createdAt |-> t]

\* the registry after `projects.set(projectId, {...})` of the handler
Register(ps, r, t) == MapSet(ps, r.projectId, NewSession(r, t))

\* await createViteServer(...) resolves: the session is stored and the
\* handler answers success
LoadVite(r) ==
    /\ Running
    /\ r \in loads /\ r.pc = "vite"
    /\ closeCount' = closeCount @@ (r.rid :> 0)
    /\ projects' = Register(projects, r, now)
    /\ loads' = loads \ {r}
    /\ out' = [Answer("load", r.projectId, 200) EXCEPT !.vite = r.rid]
    /\ UNCHANGED <<disk, now, nextSweep, updates, rms, sigterm, nLoads, nUpdates>>

\* the session is stored before createViteServer is awaited, so a failed
\* creation leaves it in the Map
LoadViteFailStored(r) ==
    /\ Running
    /\ r \in loads /\ r.pc = "vite"
    /\ LoadFail(r)
    /\ closeCount' = closeCount @@ (r.rid :> 0)
    /\ projects' = Register(projects, r, now)
    /\ UNCHANGED <<disk, now, nextSweep, updates, rms, sigterm, nLoads, nUpdates>>

\* the catch block also removes the project's entry from the Map
LoadViteFailDelete(r) ==
    /\ Running
    /\ r \in loads /\ r.pc = "vite"
    /\ LoadFail(r)
    /\ projects' = SelectSeq(projects, LAMBDA e : e.key # r.projectId)
    /\ sigterm' = [sigterm EXCEPT !.pos =
                      Cardinality({ k \in 1..sigterm.pos :
                                      projects[k].key # r.projectId })]
    /\ UNCHANGED <<closeCount, disk, now, nextSweep, updates, rms,
                   nLoads, nUpdates>>

\* await createViteServer(...) rejects
LoadViteFail(r) ==
    /\ Running
    /\ r \in loads /\ r.pc = "vite"
    /\ LoadFail(r)
    /\ UNCHANGED <<projects, closeCount, disk, now, nextSweep, updates, rms,
                   sigterm, nLoads, nUpdates>>

(* ---------------------------------------------------------------------- *)
(* POST /update-file                                                       *)
(* ---------------------------------------------------------------------- *)
\* the workspace directory is made before the session is looked up
UpdateNotFoundMkdir(projectId) ==
    /\ out' = Answer("update", projectId, 404)
    /\ updates' = updates
    /\ disk' = MkdirP(disk, ProjectPath(projectId))

\* if (!project) return res.status(404).json(...)
UpdateNotFound(projectId) ==
    /\ out' = Answer("update", projectId, 404)
    /\ updates' = updates
    /\ disk' = disk

\* the request arrives: validation, lookup, and fs.writeFile is started.
\* The handler keeps the session object it looked up (its path, its vite).
UpdateArrive(projectId, path, hasContent, content) ==
    /\ Running
    /\ nLoads + nUpdates < MaxRequests
    /\ nUpdates' = nUpdates + 1
    /\ IF projectId = NoId \/ path = NoPath \/ ~hasContent
          THEN /\ out' = Answer("update", projectId, 400)
               /\ updates' = updates
               /\ disk' = disk
       ELSE IF ~Has(projects, projectId)
          THEN UpdateNotFound(projectId)
       ELSE /\ out' = Answer("update", projectId, 0)
            /\ updates' = updates \cup
                 {[rid |-> nUpdates + 1, projectId |-> projectId,
                   vite |-> Get(projects, projectId).vite,
                   filePath |-> join(Get(projects, projectId).path, path),
                   content |-> content, pc |-> "writing"]}
            /\ disk' = disk
    /\ UNCHANGED <<projects, closeCount, now, nextSweep, loads, rms,
                   sigterm, nLoads>>

\* fs.writeFile(filePath, content) settles: the file is written, or the
\* call fails (no parent directory, a directory in the way)
UpdateWrite(r) ==
    /\ Running
    /\ r \in updates /\ r.pc = "writing"
    /\ IF WriteOk(disk, r.filePath)
          THEN /\ disk' = WriteFile(disk, r.filePath, r.content)
               /\ updates' = (updates \ {r}) \cup {[r EXCEPT !.pc = "written"]}
          ELSE /\ disk' = disk
               /\ updates' = (updates \ {r}) \cup {[r EXCEPT !.pc = "failed"]}
    /\ out' = NoOut
    /\ UNCHANGED <<projects, closeCount, now, nextSweep, loads, rms,
                   sigterm, nLoads, nUpdates>>

\* fs.writeFile rejects for a reason outside the model (no space, no
\* permission); the handler treats it as any other rejection
UpdateFsError(r) ==
    /\ Running
    /\ r \in updates /\ r.pc = "writing"
    /\ updates' = (updates \ {r}) \cup {[r EXCEPT !.pc = "ioerror"]}
    /\ out' = NoOut
    /\ UNCHANGED <<projects, closeCount, disk, now, nextSweep, loads, rms,
                   sigterm, nLoads, nUpdates>>

\* what the handler emits once `await fs.writeFile` has returned; module
\* tells whether moduleGraph.getModuleById(filePath) found a module
UpdateSignal(r, module) ==
    [op |-> "update", id |-> r.projectId, status |-> 200,
     vite |-> r.vite, inval |-> module]

\* fs.writeFile is not awaited: the handler goes on while the write is pending
UpdateResumeNoAwait(r) ==
    /\ Running
    /\ r \in updates /\ r.pc \in {"writing", "written", "failed", "ioerror"}
    /\ updates' = updates \ {r}
    /\ IF r.pc \in {"writing", "written"}
          THEN \E module \in BOOLEAN : out' = UpdateSignal(r, module)
          ELSE out' = Answer("update", r.projectId, 500)
    /\ UNCHANGED <<projects, closeCount, disk, now, nextSweep, loads, rms,
                   sigterm, nLoads, nUpdates>>

\* a successful update stores Date.now() as the session's createdAt
UpdateResumeTouch(r) ==
    /\ Running
    /\ r \in updates /\ r.pc \in {"written", "failed", "ioerror"}
    /\ updates' = updates \ {r}
    /\ IF r.pc = "written"
          THEN \E module \in BOOLEAN : out' = UpdateSignal(r, module)
          ELSE out' = Answer("update", r.projectId, 500)
    /\ projects' = [k \in 1..Len(projects) |->
                      IF projects[k].vite = r.vite /\ r.pc = "written"
                         THEN [projects[k] EXCEPT !.createdAt = now]
                         ELSE projects[k]]
    /\ UNCHANGED <<closeCount, disk, now, nextSweep, loads, rms,
                   sigterm, nLoads, nUpdates>>

\* the handler resumes after the await: invalidateModule and ws.send when
\* the engine knows the module, then the success answer; or the catch block
UpdateResume(r) ==
    /\ Running
    /\ r \in updates /\ r.pc \in {"written", "failed", "ioerror"}
    /\ updates' = updates \ {r}
    /\ IF r.pc = "written"
          THEN \E module \in BOOLEAN : out' = UpdateSignal(r, module)
          ELSE out' = Answer("update", r.projectId, 500)
    /\ UNCHANGED <<projects, closeCount, disk, now, nextSweep, loads, rms,
                   sigterm, nLoads, nUpdates>>

(* ---------------------------------------------------------------------- *)
(* /preview/:projectId and GET /health                                     *)
(* ---------------------------------------------------------------------- *)
\* the middleware runs without an await: 404, or the request is handed to
\* project.vite.middlewares
Preview(projectId) ==
    /\ Running
    /\ out' = IF ~Has(projects, projectId)
                 THEN Answer("preview", projectId, 404)
                 ELSE [Answer("preview", projectId, 200)
                         EXCEPT !.vite = Get(projects, projectId).vite]
    /\ UNCHANGED <<projects, closeCount, disk, now, nextSweep, loads, updates,
                   rms, sigterm, nLoads, nUpdates>>

\* activeProjects: projects.size is all the handler reads
Health ==
    /\ Running
    /\ out' = [Answer("health", NoId, 200) EXCEPT !.vite = Len(projects)]
    /\ UNCHANGED <<projects, closeCount, disk, now, nextSweep, loads, updates,
                   rms, sigterm, nLoads, nUpdates>>

(* ---------------------------------------------------------------------- *)
(* The cleanup sweep                                                       *)
(* ---------------------------------------------------------------------- *)
\* the comparison written with >= : a session is evicted at the threshold
ExpiredAtThreshold(e, t) == t - e.createdAt >= MAX_AGE

\* a sweep that lets a session live one more interval
ExpiredLate(e, t) == t - e.createdAt > MAX_AGE + SWEEP_INTERVAL

\* now - project.createdAt > MAX_AGE
Expired(e, t) == t - e.createdAt > MAX_AGE

\* the entries the sweep leaves in the Map
Kept(ps, t) == SelectSeq(ps, LAMBDA e : ~Expired(e, t))

\* the engines the sweep calls close() on
SweptEngines(ps, t) == { ps[k].vite : k \in { j \in 1..Len(ps) : Expired(ps[j], t) } }

\* the workspaces the sweep starts to delete
SweptPaths(ps, t) == { ps[k].path : k \in { j \in 1..Len(ps) : Expired(ps[j], t) } }

\* where a Map iterator that has passed pos entries stands after the sweep:
\* deleted entries behind it no longer count
IterAfter(ps, t, pos) == Cardinality({ k \in 1..pos : ~Expired(ps[k], t) })

\* the setInterval callback: one uninterrupted pass over the Map
Sweep ==
    /\ Running
    /\ now >= nextSweep
    /\ nextSweep' = now + SWEEP_INTERVAL
    /\ projects' = Kept(projects, now)
    /\ closeCount' = CloseAll(closeCount, SweptEngines(projects, now))
    /\ rms' = rms \cup SweptPaths(projects, now)
    /\ sigterm' = [sigterm EXCEPT !.pos = IterAfter(projects, now, sigterm.pos)]
    /\ out' = NoOut
    /\ UNCHANGED <<disk, now, loads, updates, nLoads, nUpdates>>

\* a pending fs.rm(project.path, {recursive, force}) removes the workspace
RmDone(p) ==
    /\ Running
    /\ p \in rms
    /\ rms' = rms \ {p}
    /\ disk' = RmRf(disk, p)
    /\ out' = NoOut
    /\ UNCHANGED <<projects, closeCount, now, nextSweep, loads, updates,
                   sigterm, nLoads, nUpdates>>

\* a pending fs.rm rejects: .catch(console.error), nothing else happens
RmFail(p) ==
    /\ Running
    /\ p \in rms
    /\ rms' = rms \ {p}
    /\ out' = NoOut
    /\ UNCHANGED <<projects, closeCount, disk, now, nextSweep, loads, updates,
                   sigterm, nLoads, nUpdates>>

\* time passes
Advance ==
    /\ Running
    /\ now < MaxClock * TimeStep
    /\ now' = now + TimeStep
    /\ out' = NoOut
    /\ UNCHANGED <<projects, closeCount, disk, nextSweep, loads, updates, rms,
                   sigterm, nLoads, nUpdates>>

(* ---------------------------------------------------------------------- *)
(* SIGTERM                                                                 *)
(* ---------------------------------------------------------------------- *)
\* the handler reaches the entry after the pos entries its iterator has
\* passed: close() is called on it and awaited; with no entry left the
\* loop ends and process.exit(0) runs
DrainNext(ps, cc, st) ==
    IF st.pos < Len(ps)
       THEN /\ closeCount' = CloseAll(cc, {ps[st.pos + 1].vite})
            /\ sigterm' = [pc |-> "closing", pos |-> st.pos + 1]
       ELSE /\ closeCount' = cc
            /\ sigterm' = [pc |-> "exited", pos |-> st.pos]

\* SIGTERM is delivered: the handler runs up to its first await
Sigterm ==
    /\ sigterm.pc = "idle"
    /\ DrainNext(projects, closeCount, sigterm)
    /\ out' = NoOut
    /\ UNCHANGED <<projects, disk, now, nextSweep, loads, updates, rms,
                   nLoads, nUpdates>>

\* the awaited close() resolves: the loop goes on with the next entry
DrainResume ==
    /\ sigterm.pc = "closing"
    /\ DrainNext(projects, closeCount, sigterm)
    /\ out' = NoOut
    /\ UNCHANGED <<projects, disk, now, nextSweep, loads, updates, rms,
                   nLoads, nUpdates>>

\* the awaited close() rejects: the async handler ends with an unhandled
\* rejection, which ends the process or (when rejections only warn) leaves
\* it running with the loop abandoned
DrainCloseFails ==
    /\ sigterm.pc = "closing"
    /\ \E pc \in {"exited", "aborted"} : sigterm' = [sigterm EXCEPT !.pc = pc]
    /\ out' = NoOut
    /\ UNCHANGED <<projects, closeCount, disk, now, nextSweep, loads, updates,
                   rms, nLoads, nUpdates>>

(* ---------------------------------------------------------------------- *)
(* The system                                                              *)
(* ---------------------------------------------------------------------- *)
Next ==
    \/ \E id \in ProjectIds \cup {NoId}, fs \in Manifests, isArray \in BOOLEAN :
          LoadArrive(id, fs, isArray)
    \/ \E r \in loads : LoadMkRoot(r)
    \/ \E r \in loads : LoadMkdir(r)
    \/ \E r \in loads : LoadWrite(r)
    \/ \E r \in loads : LoadFsError(r)
    \/ \E r \in loads : LoadVite(r)
    \/ \E r \in loads : LoadViteFail(r)
    \/ \E id \in ProjectIds \cup {NoId}, path \in UpdatePaths \cup {NoPath},
          hasContent \in BOOLEAN, content \in Contents :
          UpdateArrive(id, path, hasContent, content)
    \/ \E r \in updates : UpdateWrite(r)
    \/ \E r \in updates : UpdateFsError(r)
    \/ \E r \in updates : UpdateResume(r)
    \/ \E id \in ProjectIds : Preview(id)
    \/ Health
    \/ Sweep
    \/ \E p \in rms : RmDone(p)
    \/ \E p \in rms : RmFail(p)
    \/ Advance
    \/ Sigterm
    \/ DrainResume
    \/ DrainCloseFails

Spec == Init /\ [][Next]_vars

(* ---------------------------------------------------------------------- *)
(* Engine handles                                                          *)
(* ---------------------------------------------------------------------- *)
\* the engines of the sessions that are in the Map
Registered(ps) == { ps[k].vite : k \in 1..Len(ps) }

\* C1: close() is called at most once on every engine handle created by a
\* load, whatever the interleaving of loads, updates, sweeps and the SIGTERM
\* loop.
C1_CloseAtMostOnce == \A h \in DOMAIN closeCount : closeCount[h] <= 1

\* C2: every session that is in the registry has an engine handle that has
\* not been closed.
C2_RegisteredNotClosed == \A h \in Registered(projects) : closeCount[h] = 0

\* C3: every engine handle that has been created and is not the handle of a
\* registered session has been closed (a load over a registered id closes
\* the prior handle before replacing the session).
C3_NoOrphanedEngine ==
    \A h \in DOMAIN closeCount : h \notin Registered(projects) => closeCount[h] >= 1

(* ---------------------------------------------------------------------- *)
(* The sweep                                                               *)
(* ---------------------------------------------------------------------- *)
\* the step is a run of the setInterval callback
SweepStep == nextSweep' # nextSweep

\* C4: a sweep removes from the registry exactly the sessions whose age
\* now - createdAt is above MAX_AGE and calls close() on their engines in
\* that same step; every other session stays as it is, its engine untouched;
\* after the sweep no registered session is older than MAX_AGE.
C4_SweepEvictsExactlyTheOld ==
    [][SweepStep =>
         /\ \A k \in 1..Len(projects) :
              LET e == projects[k] IN
              IF now - e.createdAt > MAX_AGE
                 THEN /\ ~Has(projects', e.key)
                      /\ closeCount'[e.vite] = closeCount[e.vite] + 1
                 ELSE /\ Has(projects', e.key)
                      /\ Get(projects', e.key) = e
                      /\ closeCount'[e.vite] = closeCount[e.vite]
         /\ Keys(projects') \subseteq Keys(projects)
         /\ \A k \in 1..Len(projects') :
              ~(now' - projects'[k].createdAt > MAX_AGE)
         /\ DOMAIN closeCount' = DOMAIN closeCount
         /\ \A h \in DOMAIN closeCount \ Registered(projects) :
              closeCount'[h] = closeCount[h]]_vars

\* a sweep has just run; it evicted one session (its workspace is being
\* deleted) and kept another whose age is exactly MAX_AGE, engine open
C4_Witness ==
    /\ nextSweep = now + SWEEP_INTERVAL
    /\ rms # {}
    /\ Len(projects) = 1
    /\ now - projects[1].createdAt = MAX_AGE
    /\ closeCount[projects[1].vite] = 0
    /\ \E h \in DOMAIN closeCount : closeCount[h] = 1

(* ---------------------------------------------------------------------- *)
(* update-file                                                             *)
(* ---------------------------------------------------------------------- *)
\* the step is the arrival of an update-file request that gets as far as
\* the lookup (it is not refused as invalid)
UpdateLooksUp == nUpdates' = nUpdates + 1 /\ out'.status # 400

\* C5: an update-file request whose id has no registered session at lookup
\* time is answered 404 and changes neither the registry nor the disk; no
\* write is started and no workspace is created.
C5_UpdateUnknownIsNotFound ==
    [][(UpdateLooksUp /\ ~Has(projects, out'.id)) =>
         /\ out'.op = "update"
         /\ out'.status = 404
         /\ projects' = projects
         /\ disk' = disk
         /\ updates' = updates
         /\ rms' = rms
         /\ closeCount' = closeCount]_vars

\* an update for "p/q" was answered 404 while another project was
\* registered, and "p/q" has no workspace
C5_Witness ==
    /\ out.op = "update" /\ out.status = 404 /\ out.id = <<"p", "q">>
    /\ ~Has(projects, <<"p", "q">>)
    /\ projects # <<>>
    /\ ProjectPath(<<"p", "q">>) \notin DOMAIN disk

\* C6: an update-file request answers success, and signals invalidation,
\* only after its write has completed: the handler that does so had its
\* file written with the new content; a request whose write failed or is
\* still pending signals nothing.
C6_WriteBeforeInvalidate ==
    [][/\ (out'.op = "update" /\ (out'.inval \/ out'.status = 200)) =>
             \E r \in updates \ updates' :
                 /\ r.pc = "written"
                 /\ r.projectId = out'.id
                 /\ r.vite = out'.vite
       /\ \A r \in updates :
             (r.pc = "writing" /\ [r EXCEPT !.pc = "written"] \in updates') =>
                 /\ r.filePath \in DOMAIN disk'
                 /\ disk'[r.filePath] = r.content]_vars

\* an update answered success and signalled invalidation, and the file it
\* wrote is on disk
C6_Witness ==
    /\ out.op = "update" /\ out.status = 200 /\ out.inval
    /\ Has(projects, out.id)
    /\ \E c \in Contents :
          /\ join(Get(projects, out.id).path, <<"f">>) \in DOMAIN disk
          /\ disk[join(Get(projects, out.id).path, <<"f">>)] = c

\* C7: createdAt of a session is set when it is registered and never
\* changes: as long as the same session (the same engine) is registered
\* under an id its createdAt is the same, and update-file and preview
\* requests leave the registry as it is.
C7_CreatedAtFixed ==
    [][/\ \A k \in 1..Len(projects) :
             LET e == projects[k] IN
             (Has(projects', e.key) /\ Get(projects', e.key).vite = e.vite) =>
                 Get(projects', e.key).createdAt = e.createdAt
       /\ out'.op \in {"update", "preview"} => projects' = projects]_vars

\* an update succeeded on a session that was created earlier than now
C7_Witness ==
    /\ out.op = "update" /\ out.status = 200
    /\ Has(projects, out.id)
    /\ Get(projects, out.id).vite = out.vite
    /\ Get(projects, out.id).createdAt < now

(* ---------------------------------------------------------------------- *)
(* Lookup over the life of a session                                       *)
(* ---------------------------------------------------------------------- *)
\* the SIGTERM loop has called close() on the session of id, the close has
\* returned and the loop has moved on
DrainProcessed(ps, st, id) ==
    /\ st.pc \in {"closing", "aborted", "exited"}
    /\ \E k \in 1..Len(ps) : k < st.pos /\ ps[k].key = id

\* the step is a preview request, or an update-file request that gets as
\* far as the lookup: the two places where projects.get(projectId) is read
LookupStep == out'.op = "preview" \/ UpdateLooksUp

\* C8: after a load of P answered success P is found in the registry, and
\* stays there until a sweep evicts it for its age; update and preview answer
\* 404 exactly when P is not registered; and once the SIGTERM loop has
\* processed P, update and preview for P answer 404.
C8_LookupFollowsLifecycle ==
    [][/\ (out'.op = "load" /\ out'.status = 200) => Has(projects', out'.id)
       /\ \A k \in 1..Len(projects) :
             ~Has(projects', projects[k].key) =>
                 SweepStep /\ now - projects[k].createdAt > MAX_AGE
       /\ LookupStep => (out'.status = 404 <=> ~Has(projects, out'.id))
       /\ (LookupStep /\ DrainProcessed(projects, sigterm, out'.id)) =>
             out'.status = 404]_vars

(* ---------------------------------------------------------------------- *)
(* Shutdown                                                                *)
(* ---------------------------------------------------------------------- *)
\* C9: when the process has exited after SIGTERM, close() has been called on
\* the engine of every session that is registered at that moment.
C9_ExitClosesEveryRegistered ==
    sigterm.pc = "exited" =>
        \A h \in Registered(projects) : closeCount[h] >= 1

(* ---------------------------------------------------------------------- *)
(* Workspaces                                                              *)
(* ---------------------------------------------------------------------- *)
\* C10: the workspace paths of two distinct registered ids are disjoint:
\* neither equals nor contains the other.
C10_WorkspacesDisjoint ==
    \A i, j \in 1..Len(projects) :
        i # j => ~IsPrefix(projects[i].path, projects[j].path)

(* ---------------------------------------------------------------------- *)
(* Where files are written                                                 *)
(* ---------------------------------------------------------------------- *)
\* the path fp lies below the directory root
Inside(root, fp) == IsPrefix(root, fp) /\ fp # root

\* the step completes the fs.writeFile of the update-file handler r
UpdateWrote(r) ==
    r \in updates /\ r.pc = "writing" /\ [r EXCEPT !.pc = "written"] \in updates'

\* the step completes the fs.writeFile of the load-project handler r
LoadWrote(r) ==
    r \in loads /\ r.pc = "write" /\ r \notin loads' /\ out'.op = "none"

\* C11: every file that load-project or update-file writes for project P
\* lies inside the workspace root of P; a path with parent-directory
\* segments never makes a write land outside that root.
C11_WritesStayInWorkspace ==
    [][/\ \A r \in updates :
             UpdateWrote(r) => Inside(ProjectPath(r.projectId), r.filePath)
       /\ \A r \in loads :
             LoadWrote(r) => Inside(r.projectPath, LoadFilePath(r))]_vars

\* the regular files below the directory root
WorkspaceFiles(d, root) == { x \in DOMAIN d : Inside(root, x) /\ d[x] # "dir" }

\* the paths at which a load writes the files of its manifest
ManifestPaths(root, files) == { join(root, files[i].path) : i \in 1..Len(files) }

\* every file of the manifest is on disk, with the manifest's content
ManifestOnDisk(d, root, files) ==
    \A i \in 1..Len(files) :
        /\ join(root, files[i].path) \in DOMAIN d
        /\ d[join(root, files[i].path)] = files[i].content

\* C12: when a load-project of P with N files answers success, the
\* workspace of P holds exactly those N files, each with its listed content,
\* and nothing else, also when P was loaded before with another file list.
C12_LoadMaterializesExactly ==
    (out.op = "load" /\ out.status = 200) =>
        LET e == Get(projects, out.id) IN
        /\ WorkspaceFiles(disk, e.path) = ManifestPaths(e.path, e.files)
        /\ ManifestOnDisk(disk, e.path, e.files)

\* C13: an update-file request for a registered project, with path and
\* content present, succeeds for every path, also one whose parent directory
\* does not exist yet: unless the file system itself fails, the write
\* creates the file with the new content and the handler answers success,
\* signalling on the engine of the session it looked up.
C13_UpdateSucceedsForEveryPath ==
    [][\A r \in updates :
          /\ (/\ r.pc = "writing"
              /\ r \notin updates'
              /\ [r EXCEPT !.pc = "ioerror"] \notin updates') =>
                /\ [r EXCEPT !.pc = "written"] \in updates'
                /\ r.filePath \in DOMAIN disk'
                /\ disk'[r.filePath] = r.content
          /\ (r.pc \in {"written", "failed"} /\ r \notin updates') =>
                /\ out'.op = "update"
                /\ out'.status = 200
                /\ out'.vite = r.vite]_vars

(* ---------------------------------------------------------------------- *)
(* Requests that meet a closed engine                                      *)
(* ---------------------------------------------------------------------- *)
\* C14: a preview request is never handed to an engine on which close() has
\* been called: a preview that reaches a session whose engine was closed by
\* a sweep or by the SIGTERM loop is refused, not delegated.
C14_PreviewNeverOnClosedEngine ==
    (out.op = "preview" /\ out.status = 200) => closeCount[out.vite] = 0

\* C18: an update-file request never writes into the workspace of an
\* evicted session, and never answers success or signals invalidation on
\* the engine of a session that was evicted after the lookup.
C18_UpdateNeverOnEvictedSession ==
    [][/\ \A r \in updates :
             UpdateWrote(r) => r.vite \in Registered(projects)
       /\ (out'.op = "update" /\ out'.status = 200) =>
             out'.vite \in Registered(projects)]_vars

(* ---------------------------------------------------------------------- *)
(* What a load does to the registry                                        *)
(* ---------------------------------------------------------------------- *)
\* C15: a load-project request that fails (400 or 500) registers no
\* session: the step that answers the error leaves the registry and the
\* engines as they are, and no step of a load handler other than the one
\* that answers success changes the registry.
C15_FailedLoadRegistersNothing ==
    [][/\ (out'.op = "load" /\ out'.status \in {400, 500}) =>
             /\ projects' = projects
             /\ closeCount' = closeCount
       /\ (projects' # projects /\ ~SweepStep) =>
             /\ out'.op = "load"
             /\ out'.status = 200
       /\ (out'.op = "load" /\ out'.status = 200) =>
             /\ Has(projects', out'.id)
             /\ Get(projects', out'.id).vite = out'.vite]_vars

\* a load of "p" was answered 500 after its file had been written; "p" is
\* not registered and no engine exists
C15_Witness ==
    /\ out.op = "load" /\ out.status = 500 /\ out.id = <<"p">>
    /\ join(ProjectPath(<<"p">>), <<"f">>) \in DOMAIN disk
    /\ projects = <<>>
    /\ closeCount = <<>>

\* the step is one of the SIGTERM handler
ShutdownStep == sigterm'.pc # sigterm.pc

\* the session e is no longer the registry's entry for its id after the step
Unseated(e) == ~Has(projects', e.key) \/ Get(projects', e.key) # e

\* C16: a registered session stops being the registry's entry for its id
\* only through a sweep that finds it over age or through the shutdown
\* sweep; no load-project, update-file, preview or health request removes
\* or replaces a registered session.
C16_OnlySweepsUnseat ==
    [][\A k \in 1..Len(projects) :
          Unseated(projects[k]) =>
              \/ SweepStep /\ now - projects[k].createdAt > MAX_AGE
              \/ ShutdownStep]_vars

\* C16, amended: a registered session stops being the registry's entry for
\* its id only through a sweep that finds it over age, through the shutdown
\* sweep, or through a load-project of the same id that answers success,
\* which replaces it; update-file, preview and health requests, failed
\* loads and loads of other ids never remove or replace it.
C16_OnlySweepsAndReloadsUnseat ==
    [][\A k \in 1..Len(projects) :
          Unseated(projects[k]) =>
              \/ SweepStep /\ now - projects[k].createdAt > MAX_AGE
              \/ ShutdownStep
              \/ /\ out'.op = "load" /\ out'.status = 200
                 /\ out'.id = projects[k].key
                 /\ Has(projects', projects[k].key)
                 /\ Get(projects', projects[k].key).vite = out'.vite]_vars

\* a load of a registered id has just answered success: the session it
\* replaced is gone from the registry, its engine neither registered nor
\* closed
C16_Witness ==
    /\ out.op = "load" /\ out.status = 200
    /\ Len(projects) = 1
    /\ projects[1].vite = out.vite
    /\ \E h \in DOMAIN closeCount :
          h # out.vite /\ closeCount[h] = 0 /\ rms = {}

\* the step settles a workspace deletion started by the sweep
RmSettles == rms' # rms /\ rms' \subseteq rms

\* C17: the workspace deletion the sweep starts for an evicted project
\* never removes a file of a registered session: when the project has been
\* loaded again while the deletion was pending, every manifest file of the
\* new session that is on disk before the deletion settles is still on disk
\* after it.
C17_RmSparesRegistered ==
    [][RmSettles =>
          \A k \in 1..Len(projects) :
             projects[k].path \in rms \ rms' =>
                \A fp \in ManifestPaths(projects[k].path, projects[k].files) :
                   fp \in DOMAIN disk => fp \in DOMAIN disk']_vars

\* only requests for projectId can touch the path fp: it lies in the
\* workspace of no other project id
OwnPath(projectId, fp) ==
    \A other \in ProjectIds \ {projectId} : ~Inside(ProjectPath(other), fp)

\* C19: whenever no load or update is in flight for P and no update has
\* been applied, each file of the registered session's manifest that is in
\* P's workspace has the manifest's content, also after two load-project
\* requests for P with different file lists have overlapped.
C19_ManifestMatchesDisk ==
    \A k \in 1..Len(projects) :
       (/\ nUpdates = 0
        /\ \A r \in loads : r.projectId # projects[k].key) =>
          \A i \in 1..Len(projects[k].files) :
             LET fp == join(projects[k].path, projects[k].files[i].path)
             IN  (OwnPath(projects[k].key, fp) /\ fp \in DOMAIN disk) =>
                    disk[fp] = projects[k].files[i].content

\* the timer callback runs whenever it is due and the clock keeps advancing
\* up to the horizon MaxClock * TimeStep
LiveSpec == Init /\ [][Next]_vars /\ WF_vars(Sweep) /\ WF_vars(Advance)

\* the session of projectId with engine h is the registry's entry
Seated(projectId, h) ==
    Has(projects, projectId) /\ Get(projects, projectId).vite = h

\* C20: a session stays registered for less than the retention threshold
\* plus one sweep interval.
C20_ResidenceBelowThresholdPlusInterval ==
    \A k \in 1..Len(projects) :
       now - projects[k].createdAt < MAX_AGE + SWEEP_INTERVAL

\* C20, amended: while the process runs, the timer keeps firing and time
\* advances, every session that outlives the threshold before the horizon
\* and is not replaced by a later load of its id eventually is absent from
\* the registry with its engine closed; every sweep leaves only sessions of
\* age at most the threshold, so a session can stay registered for the
\* threshold plus one interval, or longer when the callback runs late.
C20_EventuallyEvicted ==
    /\ \A projectId \in ProjectIds : \A h \in 1..MaxRequests :
          [](( /\ Seated(projectId, h)
               /\ Get(projects, projectId).createdAt + MAX_AGE
                     < MaxClock * TimeStep )
                => <>( \/ ~Running
                       \/ Has(projects, projectId) /\ ~Seated(projectId, h)
                       \/ /\ ~Has(projects, projectId)
                          /\ h \in DOMAIN closeCount
                          /\ closeCount[h] >= 1 ))
    /\ [][SweepStep =>
             \A k \in 1..Len(projects') :
                now - projects'[k].createdAt <= MAX_AGE]_vars

\* a sweep has evicted the one session, registered for the threshold plus
\* one interval: the registry is empty, the engine closed, the workspace
\* deletion pending
C20_Witness ==
    /\ Running
    /\ now = MAX_AGE + SWEEP_INTERVAL
    /\ projects = <<>>
    /\ rms # {}
    /\ \E h \in DOMAIN closeCount : closeCount[h] >= 1

====
